---------------------------- MODULE Spec2Model ----------------------------
(***************************************************************************)
(* prjury: the aggregation engine (scripts/aggregate.mjs), the optional    *)
(* LLM rewrite pass (scripts/unify-llm.mjs) and the orchestrator           *)
(* (scripts/prjury.mjs), as state machines.                                *)
(*                                                                         *)
(* JavaScript values are records [ty, val, elems]: a string carries its    *)
(* characters in val, a number its decimal text in val, an array of        *)
(* strings its elements in elems.  File names, tool names and suggestions  *)
(* are strings of one symbol (<<"codex">>); messages and severities are    *)
(* spelled character by character.                                         *)
(***************************************************************************)
EXTENDS Integers, Sequences, FiniteSets, TLC

VARIABLES
    \* scripts/aggregate.mjs
    dir,        \* the input directory: [exists, files]
    pc,         \* position of aggregate's main: start, loaded, deduped, done, failed
    items,      \* loadIssues' result
    deduped,    \* dedupe's result (the values of its Map, in insertion order)
    report,     \* the object written to <out>.json
    summary,    \* the text written to <out>.md, by its parts
    \* scripts/unify-llm.mjs
    upc,        \* position of unify-llm's main
    apiKey,     \* OPENAI_API_KEY is set
    issuesFile, \* the --issues file: missing, invalid, valid
    response,   \* what the chat completions call came to
    uexit,      \* how the process ended: none, ok, uncaught, killed
    \* scripts/prjury.mjs
    ppc,        \* position of prjury's main
    opts,       \* its options: post, repo, pr, githubToken, openaiKey
    reportMd,   \* <inputDir>/report.md: "" when absent, else its text
    commentMd,  \* <inputDir>/comment.md: "" when absent, else its text
    aggStatus,  \* exit status of the aggregate child
    posted      \* bodies sent to the review API, in order

aggVars == <<dir, pc, items, deduped, report, summary>>
unifyVars == <<upc, apiKey, issuesFile, response, uexit>>
fileVars == <<reportMd, commentMd>>
prjuryVars == <<ppc, opts, aggStatus, posted>>
vars == <<dir, pc, items, deduped, report, summary, upc, apiKey, issuesFile,
          response, uexit, ppc, opts, reportMd, commentMd, aggStatus, posted>>

---------------------------------------------------------------------------
(* Bounds of the model *)

\* Most array elements over all files of the input directory.
MaxIssues == 2
\* Number of findings in the one file of the runs about disagreements.
MaxFindings == 4
\* Largest --max-comments value tried.
MaxCap == 2

---------------------------------------------------------------------------
(* JavaScript values *)

Str(s) == [ty |-> "string", val |-> s, elems |-> <<>>]
Num(d) == [ty |-> "number", val |-> <<d>>, elems |-> <<>>]
Arr(xs) == [ty |-> "array", val |-> <<>>, elems |-> xs]
Undefined == [ty |-> "undefined", val |-> <<>>, elems |-> <<>>]
Null == [ty |-> "null", val |-> <<>>, elems |-> <<>>]

\* !v is false: every value but undefined, null, "" and 0.
Truthy(v) ==
    ~ \/ v.ty \in {"undefined", "null"}
      \/ v.ty = "string" /\ v.val = <<>>
      \/ v.ty = "number" /\ v.val = <<"0">>

\* a || b
Or(a, b) == IF Truthy(a) THEN a ELSE b

\* [...v]: the elements of an array, the characters of a string.
Iterable(v) == v.ty \in {"array", "string"}
Spread(v) == IF v.ty = "array" THEN v.elems ELSE [i \in 1..Len(v.val) |-> <<v.val[i]>>]

Range(s) == {s[i] : i \in 1..Len(s)}

\* Array.from(new Set(xs)): first occurrences, in order.
RECURSIVE Uniq(_)
Uniq(xs) ==
    IF xs = <<>> THEN <<>>
    ELSE LET init == Uniq(SubSeq(xs, 1, Len(xs) - 1))
             last == xs[Len(xs)]
         IN IF last \in Range(init) THEN init ELSE Append(init, last)

RECURSIVE Flatten(_)
Flatten(xss) == IF xss = <<>> THEN <<>> ELSE Head(xss) \o Flatten(Tail(xss))

\* What Number(arg) returns: an integer, an integer and a half, or NaN.
Integer(n) == [nan |-> FALSE, int |-> n, half |-> FALSE]
AndAHalf(n) == [nan |-> FALSE, int |-> n, half |-> TRUE]
NaN == [nan |-> TRUE, int |-> 0, half |-> FALSE]

\* The integer slice makes of its end argument: NaN is 0, a fraction is cut off.
ToIntegerOrInfinity(number) == IF number.nan THEN 0 ELSE number.int

---------------------------------------------------------------------------
(* scripts/aggregate.mjs *)

severityOrder == <<"blocker", "major", "minor", "nit">>

\* severityOrder.indexOf(s), counted from 0; -1 when absent.
IndexOf(s) ==
    IF \E i \in 1..Len(severityOrder) : severityOrder[i] = s
    THEN (CHOOSE i \in 1..Len(severityOrder) : severityOrder[i] = s) - 1
    ELSE -1

\* The spelling of the words normalizeSeverity compares with.
Chars(w) ==
    CASE w = "blocker" -> <<"b", "l", "o", "c", "k", "e", "r">>
      [] w = "major" -> <<"m", "a", "j", "o", "r">>
      [] w = "minor" -> <<"m", "i", "n", "o", "r">>
      [] w = "nit" -> <<"n", "i", "t">>
      [] w = "critical" -> <<"c", "r", "i", "t", "i", "c", "a", "l">>
      [] w = "high" -> <<"h", "i", "g", "h">>
      [] w = "medium" -> <<"m", "e", "d", "i", "u", "m">>
      [] w = "low" -> <<"l", "o", "w">>

\* String.prototype.toLowerCase, on the letters the model's inputs use.
LowerChar(c) ==
    CASE c = "B" -> "b" [] c = "H" -> "h" [] c = "I" -> "i" [] c = "G" -> "g"
      [] c = "M" -> "m" [] c = "A" -> "a" [] c = "J" -> "j" [] c = "O" -> "o"
      [] c = "R" -> "r" [] c = "N" -> "n" [] c = "T" -> "t" [] c = "L" -> "l"
      [] c = "W" -> "w" [] c = "C" -> "c" [] c = "K" -> "k" [] c = "E" -> "e"
      [] c = "D" -> "d" [] c = "U" -> "u" [] OTHER -> c
ToLowerCase(s) == [i \in 1..Len(s) |-> LowerChar(s[i])]

\* normalizeSeverity without toLowerCase.
normalizeSeverityCaseSensitive(value) ==
    IF ~Truthy(value) THEN "minor"
    ELSE LET lower == value.val
         IN IF \E i \in 1..Len(severityOrder) : Chars(severityOrder[i]) = lower
            THEN severityOrder[CHOOSE i \in 1..Len(severityOrder) :
                                   Chars(severityOrder[i]) = lower]
            ELSE IF lower \in {Chars("critical"), Chars("high")} THEN "blocker"
            ELSE IF lower \in {Chars("medium")} THEN "major"
            ELSE IF lower \in {Chars("low")} THEN "minor"
            ELSE "minor"

normalizeSeverity(value) ==
    IF ~Truthy(value) THEN "minor"
    ELSE LET lower == ToLowerCase(value.val)
         IN IF \E i \in 1..Len(severityOrder) : Chars(severityOrder[i]) = lower
            THEN severityOrder[CHOOSE i \in 1..Len(severityOrder) :
                                   Chars(severityOrder[i]) = lower]
            ELSE IF lower \in {Chars("critical"), Chars("high")} THEN "blocker"
            ELSE IF lower \in {Chars("medium")} THEN "major"
            ELSE IF lower \in {Chars("low")} THEN "minor"
            ELSE "minor"

\* tryReadJson without its try and catch.
tryReadJsonNoCatch(file) ==
    IF file.kind \in {"unreadable", "badjson"}
    THEN [threw |-> TRUE, isArray |-> FALSE, data |-> <<>>]
    ELSE IF file.kind = "nonarray" THEN [threw |-> FALSE, isArray |-> FALSE, data |-> <<>>]
    ELSE [threw |-> FALSE, isArray |-> TRUE, data |-> file.data]

\* tryReadJson: the parsed value, by whether it is an array and, if so, its
\* elements.  readFileSync and JSON.parse throw on a file that cannot be read or
\* parsed; the catch turns that into null, so nothing is thrown to the caller.
tryReadJson(file) ==
    IF file.kind \in {"unreadable", "badjson"}
    THEN [threw |-> FALSE, isArray |-> FALSE, data |-> <<>>]
    ELSE IF file.kind = "nonarray" THEN [threw |-> FALSE, isArray |-> FALSE, data |-> <<>>]
    ELSE [threw |-> FALSE, isArray |-> TRUE, data |-> file.data]

\* The record loadIssues builds from one element of the file named name.json.
Normalize(issue, name) ==
    [tool |-> Or(issue.tool, Str(name)),
     severity |-> normalizeSeverity(issue.severity),
     file |-> Or(issue.file, Null),
     line |-> IF issue.line.ty = "number" THEN issue.line ELSE Null,
     message |-> Or(Or(issue.message, issue.text), Str(<<>>)),
     suggestion |-> Or(Or(issue.suggestion, issue.fix), Null),
     tools |-> Or(issue.tools, Null)]

\* LoadElements without the check of the message.
RECURSIVE LoadElementsKeepEmpty(_, _)
LoadElementsKeepEmpty(data, name) ==
    IF data = <<>> THEN <<>>
    ELSE LET issue == Head(data)
             rest == LoadElementsKeepEmpty(Tail(data), name)
         IN IF ~issue.isObject THEN rest
            ELSE <<Normalize(issue, name)>> \o rest

\* LoadElements dropping the elements without a file as well.
RECURSIVE LoadElementsRequireFile(_, _)
LoadElementsRequireFile(data, name) ==
    IF data = <<>> THEN <<>>
    ELSE LET issue == Head(data)
             rest == LoadElementsRequireFile(Tail(data), name)
         IN IF ~issue.isObject THEN rest
            ELSE IF ~Truthy(Normalize(issue, name).message) THEN rest
            ELSE IF ~Truthy(Normalize(issue, name).file) THEN rest
            ELSE <<Normalize(issue, name)>> \o rest

\* The inner loop of loadIssues over one file's elements.
RECURSIVE LoadElements(_, _)
LoadElements(data, name) ==
    IF data = <<>> THEN <<>>
    ELSE LET issue == Head(data)
             rest == LoadElements(Tail(data), name)
         IN IF ~issue.isObject THEN rest
            ELSE IF ~Truthy(Normalize(issue, name).message) THEN rest
            ELSE <<Normalize(issue, name)>> \o rest

\* What one file of the directory adds to items.
LoadFile(file) ==
    LET data == tryReadJson(file)
    IN IF ~data.isArray THEN <<>> ELSE LoadElements(data.data, file.name)

RECURSIVE LoadFiles(_)
LoadFiles(files) ==
    IF files = <<>> THEN <<>> ELSE LoadFile(Head(files)) \o LoadFiles(Tail(files))

loadIssues(d) == IF ~d.exists THEN <<>> ELSE LoadFiles(d.files)

\* An exception leaves loadIssues (none does: tryReadJson catches its own).
LoadThrows(d) == d.exists /\ \E i \in 1..Len(d.files) : tryReadJson(d.files[i]).threw


\* String.prototype.slice(0, n) and Array.prototype.slice(0, n) for an integer n.
Slice(s, n) ==
    LET stop == IF n < 0 THEN (IF Len(s) + n < 0 THEN 0 ELSE Len(s) + n)
                ELSE IF n > Len(s) THEN Len(s) ELSE n
    IN SubSeq(s, 1, stop)

\* \s
IsSpace(c) == c \in {" ", "\t", "\n"}

\* replace(/\s+/g, " ")
RECURSIVE CollapseSpaces(_)
CollapseSpaces(s) ==
    IF s = <<>> THEN <<>>
    ELSE IF IsSpace(Head(s))
         THEN IF Len(s) > 1 /\ IsSpace(s[2]) THEN CollapseSpaces(Tail(s))
              ELSE <<" ">> \o CollapseSpaces(Tail(s))
         ELSE <<Head(s)>> \o CollapseSpaces(Tail(s))

\* String.prototype.trim
RECURSIVE Trim(_)
Trim(s) ==
    IF s = <<>> THEN <<>>
    ELSE IF IsSpace(Head(s)) THEN Trim(Tail(s))
    ELSE IF IsSpace(s[Len(s)]) THEN Trim(SubSeq(s, 1, Len(s) - 1))
    ELSE s

\* The length of the message prefix that enters the key.
KeyPrefix == 160

\* The key dedupe joins with "|".
MergeKey(issue) ==
    Or(issue.file, Str(<<>>)).val \o <<"|">> \o Or(issue.line, Str(<<>>)).val \o <<"|">>
        \o Trim(CollapseSpaces(Slice(issue.message.val, KeyPrefix)))

\* issue.tool || "unknown"
ToolOf(issue) == Or(issue.tool, Str(<<"unknown">>)).val

\* ...(issue.tools || [])
ToolsOf(issue) == Spread(Or(issue.tools, Arr(<<>>)))

\* dedupe ends in a TypeError on this issue: message.slice(..).replace is no
\* function of a value that is no string, and a value that is neither an array
\* nor a string cannot be spread.
Throws(issue) ==
    \/ issue.message.ty # "string"
    \/ Truthy(issue.tools) /\ ~Iterable(issue.tools)

\* FirstOfKey without the issue's own tool.
FirstOfKeyToolsOnly(issue) ==
    [issue EXCEPT !.tools = Arr(Uniq(ToolsOf(issue)))]

\* The record dedupe stores for the first issue of a key.
FirstOfKey(issue) ==
    [issue EXCEPT !.tools = Arr(Uniq(ToolsOf(issue) \o <<ToolOf(issue)>>))]

\* MergeSeverity without the comparison: the later duplicate's severity wins.
MergeSeverityLastWins(existing, issue) == issue.severity

\* Keep the highest severity (lowest index).
MergeSeverity(existing, issue) ==
    IF IndexOf(issue.severity) < IndexOf(existing.severity)
    THEN issue.severity ELSE existing.severity

\* MergeTools without the Set: the tools are appended.
MergeToolsAppend(existing, issue) ==
    Arr(existing.tools.elems \o <<ToolOf(issue)>> \o ToolsOf(issue))

MergeTools(existing, issue) ==
    Arr(Uniq(existing.tools.elems \o <<ToolOf(issue)>> \o ToolsOf(issue)))

\* MergeSuggestion taking the suggestion of every later duplicate that has one.
MergeSuggestionLastWins(existing, issue) ==
    IF Truthy(issue.suggestion) THEN issue.suggestion ELSE existing.suggestion

\* Prefer existing suggestion unless missing.
MergeSuggestion(existing, issue) ==
    IF ~Truthy(existing.suggestion) /\ Truthy(issue.suggestion)
    THEN issue.suggestion ELSE existing.suggestion

\* What dedupe does to an existing record on a later issue of its key.
MergeInto(existing, issue) ==
    [existing EXCEPT !.severity = MergeSeverity(existing, issue),
                     !.tools = MergeTools(existing, issue),
                     !.suggestion = MergeSuggestion(existing, issue)]

\* One iteration of dedupe's loop; map holds the Map's values in insertion order.
DedupeOne(map, issue) ==
    IF \E i \in 1..Len(map) : MergeKey(map[i]) = MergeKey(issue)
    THEN LET i == CHOOSE j \in 1..Len(map) : MergeKey(map[j]) = MergeKey(issue)
         IN [map EXCEPT ![i] = MergeInto(map[i], issue)]
    ELSE Append(map, FirstOfKey(issue))

RECURSIVE DedupeFrom(_, _)
DedupeFrom(map, issues) ==
    IF issues = <<>> THEN map
    ELSE DedupeFrom(DedupeOne(map, Head(issues)), Tail(issues))

dedupe(issues) == DedupeFrom(<<>>, issues)

\* SortBySeverity with the comparator's operands exchanged: nit first.
SortBySeverityDescending(s) ==
    Flatten([r \in 1..(Len(severityOrder) + 1) |->
                SelectSeq(s, LAMBDA x : IndexOf(x.severity) = Len(severityOrder) - r)])

\* Array.prototype.sort with (a, b) => indexOf(a.severity) - indexOf(b.severity):
\* a stable sort, so the issues of one rank keep their order.
SortBySeverity(s) ==
    Flatten([r \in 1..(Len(severityOrder) + 1) |->
                SelectSeq(s, LAMBDA x : IndexOf(x.severity) = r - 2)])

\* `${issue.file || "unknown"}:${issue.line || "?"}`
Location(issue) ==
    Or(issue.file, Str(<<"unknown">>)).val \o <<":">> \o Or(issue.line, Str(<<"?">>)).val

\* issue.tools || [issue.tool || "unknown"]
ToolsOrTool(issue) ==
    IF Truthy(issue.tools) THEN Spread(issue.tools)
    ELSE <<ToolOf(issue)>>

findDisagreements(issues) ==
    LET locs == Uniq([i \in 1..Len(issues) |-> Location(issues[i])])
        list(loc) == SelectSeq(issues, LAMBDA x : Location(x) = loc)
        severities(loc) == Uniq([i \in 1..Len(list(loc)) |-> list(loc)[i].severity])
        entry(loc) ==
            [location |-> loc,
             severities |-> severities(loc),
             tools |-> Uniq(Flatten([i \in 1..Len(list(loc)) |-> ToolsOrTool(list(loc)[i])]))]
        disagreeing == SelectSeq(locs, LAMBDA loc : Len(severities(loc)) > 1)
    IN [i \in 1..Len(disagreeing) |-> entry(disagreeing[i])]

\* The toolCounts loop of main.
ToolCounts(sorted) ==
    LET all == Flatten([i \in 1..Len(sorted) |-> ToolsOrTool(sorted[i])])
    IN [t \in Range(all) |-> Cardinality({i \in 1..Len(all) : all[i] = t})]

\* The lines formatSummary pushes, by their kind: the header, a blank line, a
\* bullet for each listed issue, the note on trimming and the Disagreements
\* section, each after a blank line.
SummaryLines(total, toList, disagreements) ==
    <<"header", "">>
        \o [i \in 1..Len(toList) |-> "bullet"]
        \o (IF total > Len(toList) THEN <<"", "trimmed">> ELSE <<>>)
        \o (IF Len(disagreements) # 0
            THEN <<"", "Disagreements:">> \o [i \in 1..Len(disagreements) |-> "disagreement"]
            ELSE <<>>)

\* formatSummary listing every issue, whatever maxComments is.
formatSummaryUncapped(issues, disagreements, toolCounts, maxComments) ==
    LET total == Len(issues)
        toList == issues
    IN [total |-> total,
        counts |-> [sev \in Range(severityOrder) |->
                       Cardinality({i \in 1..Len(issues) : issues[i].severity = sev})],
        bullets |-> toList,
        trimmed |-> IF total > Len(toList) THEN <<Len(toList), total>> ELSE <<>>,
        disagreements |-> disagreements,
        lines |-> SummaryLines(total, toList, disagreements)]

\* The parts of the text formatSummary lays out, and its lines.
formatSummary(issues, disagreements, toolCounts, maxComments) ==
    LET total == Len(issues)
        toList == Slice(issues, ToIntegerOrInfinity(maxComments))
    IN [total |-> total,
        counts |-> [sev \in Range(severityOrder) |->
                       Cardinality({i \in 1..Len(issues) : issues[i].severity = sev})],
        bullets |-> toList,
        trimmed |-> IF total > Len(toList) THEN <<Len(toList), total>> ELSE <<>>,
        disagreements |-> disagreements,
        lines |-> SummaryLines(total, toList, disagreements)]

\* ReportJson counting the capped list as the total.
ReportJsonTotalOfTrimmed(sorted, maxComments) ==
    LET trimmed == Slice(sorted, ToIntegerOrInfinity(maxComments))
    IN [total |-> Len(trimmed),
        emitted |-> Len(trimmed),
        maxComments |-> maxComments,
        issues |-> trimmed,
        disagreements |-> findDisagreements(sorted),
        toolCounts |-> ToolCounts(sorted)]

\* ReportJson counting the tools of the capped list only.
ReportJsonCountsOfTrimmed(sorted, maxComments) ==
    LET trimmed == Slice(sorted, ToIntegerOrInfinity(maxComments))
    IN [total |-> Len(sorted),
        emitted |-> Len(trimmed),
        maxComments |-> maxComments,
        issues |-> trimmed,
        disagreements |-> findDisagreements(sorted),
        toolCounts |-> ToolCounts(trimmed)]

\* ReportJson looking for disagreements among the capped issues only.
ReportJsonDisagreementsOfTrimmed(sorted, maxComments) ==
    LET trimmed == Slice(sorted, ToIntegerOrInfinity(maxComments))
    IN [total |-> Len(sorted),
        emitted |-> Len(trimmed),
        maxComments |-> maxComments,
        issues |-> trimmed,
        disagreements |-> findDisagreements(trimmed),
        toolCounts |-> ToolCounts(sorted)]

\* The object main writes to <out>.json.
ReportJson(sorted, maxComments) ==
    LET trimmed == Slice(sorted, ToIntegerOrInfinity(maxComments))
    IN [total |-> Len(sorted),
        emitted |-> Len(trimmed),
        maxComments |-> maxComments,
        issues |-> trimmed,
        disagreements |-> findDisagreements(sorted),
        toolCounts |-> ToolCounts(sorted)]

NoReport ==
    [total |-> 0, emitted |-> 0, maxComments |-> Integer(0), issues |-> <<>>,
     disagreements |-> <<>>, toolCounts |-> <<>>]
NoSummary ==
    [total |-> 0, counts |-> [sev \in Range(severityOrder) |-> 0], bullets |-> <<>>,
     trimmed |-> <<>>, disagreements |-> <<>>, lines |-> <<>>]

---------------------------------------------------------------------------
(* The inputs of aggregate: what the adapters left in the input directory *)

\* An element of a file's top-level array: an object with these fields, or a
\* value that is no object (a number, a string, null).
Obj(tool, severity, file, line, message, text, suggestion, fix, tools) ==
    [isObject |-> TRUE, tool |-> tool, severity |-> severity, file |-> file,
     line |-> line, message |-> message, text |-> text, suggestion |-> suggestion,
     fix |-> fix, tools |-> tools]
Scalar ==
    [isObject |-> FALSE, tool |-> Undefined, severity |-> Undefined, file |-> Undefined,
     line |-> Undefined, message |-> Undefined, text |-> Undefined,
     suggestion |-> Undefined, fix |-> Undefined, tools |-> Undefined]

\* A finding {severity, file, line, message}; its tool is the file's name.
Finding(severity, file, line, message) ==
    Obj(Undefined, severity, file, line, message, Undefined, Undefined, Undefined, Undefined)

FileA == Str(<<"src/a.ts">>)
MsgX == Str(<<"X">>)
MsgY == Str(<<"Y">>)
High == Str(<<"H", "I", "G", "H">>)
Major == Str(<<"M", "a", "j", "o", "r">>)
Nit == Str(<<"n", "i", "t">>)

\* Findings at src/a.ts:7, at line 0 and at no line, with several severities.
Findings ==
    {Finding(sev, FileA, Num("7"), MsgX) : sev \in {High, Major, Nit, Undefined}}
    \cup {Finding(sev, FileA, Num("0"), MsgX) : sev \in {Major, Undefined}}
    \cup {Finding(sev, FileA, Undefined, MsgX) : sev \in {High, Undefined}}
    \cup {Finding(sev, FileA, Undefined, MsgY) : sev \in {High, Undefined}}

\* Findings that name their tool, carry upstream provenance or a suggestion.
Attributed ==
    {Obj(Str(<<"lint">>), Undefined, FileA, Num("7"), MsgX, Undefined, Undefined, Undefined,
         Arr(<< <<"codex">>, <<"codex">> >>)),
     Obj(Undefined, Undefined, FileA, Num("7"), MsgX, Undefined, Undefined, Undefined,
         Arr(<<>>)),
     Obj(Undefined, Undefined, FileA, Num("7"), MsgX, Undefined, Str(<<"s1">>), Undefined,
         Undefined),
     Obj(Undefined, Major, FileA, Num("7"), MsgX, Undefined, Undefined, Str(<<"s2">>),
         Undefined)}

\* Elements an adapter should not have written.
Untrusted ==
    {Scalar,
     \* no message and no text
     Finding(Major, FileA, Num("7"), Undefined),
     \* text for message, no file, a string for line, a number for severity
     Obj(Undefined, Num("5"), Undefined, Str(<<"7">>), Undefined, Str(<<"X", " ">>), Undefined,
         Undefined, Undefined),
     \* a number for message
     Finding(Major, FileA, Num("7"), Num("5")),
     \* a number for tools
     Obj(Undefined, Major, FileA, Num("7"), MsgX, Undefined, Undefined, Undefined, Num("5"))}

RawElements == Findings \cup Attributed \cup Untrusted

SeqsOfLen(S, n) == [1..n -> S]

File(name, kind, data) == [name |-> name, kind |-> kind, data |-> data]
\* A file holds a JSON array, or is one tryReadJson or Array.isArray rejects:
\* unreadable, not JSON, or JSON that is no array (such as the report.json of an
\* earlier run).
BadKinds == {"unreadable", "badjson", "nonarray"}
FileKinds == {"array"} \cup BadKinds

\* readdir's listing: codex.json, then gemini.json.
Listing(kind1, data1, kind2, data2) ==
    [exists |-> TRUE,
     files |-> <<File(<<"codex">>, kind1, data1), File(<<"gemini">>, kind2, data2)>>]
\* A directory without .json files.
EmptyDir == [exists |-> TRUE, files |-> <<>>]
NoDir == [exists |-> FALSE, files |-> <<>>]

\* The upper-case letter of a lower-case one, for spelling severities.
UpperChar(c) ==
    CASE c = "b" -> "B" [] c = "h" -> "H" [] c = "i" -> "I" [] c = "g" -> "G"
      [] c = "m" -> "M" [] c = "a" -> "A" [] c = "j" -> "J" [] c = "o" -> "O"
      [] c = "r" -> "R" [] c = "n" -> "N" [] c = "t" -> "T" [] c = "l" -> "L"
      [] c = "w" -> "W" [] c = "c" -> "C" [] c = "k" -> "K" [] c = "e" -> "E"
      [] c = "d" -> "D" [] c = "u" -> "U" [] OTHER -> c
UpperCase(s) == [i \in 1..Len(s) |-> UpperChar(s[i])]
Capitalized(s) == [i \in 1..Len(s) |-> IF i = 1 THEN UpperChar(s[i]) ELSE s[i]]

\* The words normalizeSeverity knows.
SeverityWords == {"blocker", "major", "minor", "nit", "critical", "high", "medium", "low"}

\* Severities an adapter may write: each known word in lower case, in upper case
\* and capitalized; words it does not know; the empty string; numbers; null; none.
RawSeverities ==
    {Str(Chars(w)) : w \in SeverityWords}
    \cup {Str(UpperCase(Chars(w))) : w \in SeverityWords}
    \cup {Str(Capitalized(Chars(w))) : w \in SeverityWords}
    \cup {Str(<<"u", "r", "g", "e", "n", "t">>), Str(Chars("high") \o <<" ">>),
          Str(<<"b", "l", "o", "c", "k">>), Str(<<>>), Num("5"), Num("0"), Null, Undefined}

\* Findings at two locations of one file (line 7 and no line), with two messages
\* and two severities each.
LocatedFindings ==
    {Finding(sev, FileA, line, msg) :
        sev \in {High, Nit}, line \in {Num("7"), Undefined}, msg \in {MsgX, MsgY}}

\* Number(arg) of the --max-comments arguments tried: 0 to MaxCap, and values
\* that are no count: a negative number, a fraction, and NaN for text that is no
\* number.
InvalidMaxComments == {Integer(-1), AndAHalf(1), NaN}
MaxCommentsValues == {Integer(n) : n \in 0..MaxCap} \cup InvalidMaxComments

---------------------------------------------------------------------------
(* aggregate's main, by its stages *)

\* Before main runs: any directory with at most MaxIssues array elements between
\* its two files, or no directory at all.
AggInit ==
    /\ \/ dir = NoDir
       \/ dir = EmptyDir
       \/ \E kind1 \in FileKinds, kind2 \in FileKinds :
            \E n1 \in 0..(IF kind1 = "array" THEN MaxIssues ELSE 0) :
              \E n2 \in 0..(IF kind2 = "array" THEN MaxIssues - n1 ELSE 0) :
                \E data1 \in SeqsOfLen(RawElements, n1), data2 \in SeqsOfLen(RawElements, n2) :
                    dir = Listing(kind1, data1, kind2, data2)
    /\ pc = "start"
    /\ items = <<>>
    /\ deduped = <<>>
    /\ report = NoReport
    /\ summary = NoSummary

\* const issues = loadIssues(options.input)
LoadIssues ==
    /\ pc = "start"
    /\ IF LoadThrows(dir)
       THEN /\ pc' = "failed"
            /\ UNCHANGED items
       ELSE /\ items' = loadIssues(dir)
            /\ pc' = "loaded"
    /\ UNCHANGED <<dir, deduped, report, summary, unifyVars, fileVars, prjuryVars>>

\* const deduped = dedupe(issues.sort(...)): the sort is in place; an exception
\* of dedupe ends the process before anything is written.
Dedupe ==
    /\ pc = "loaded"
    /\ LET sorted == SortBySeverity(items)
       IN /\ items' = sorted
          /\ IF \E i \in 1..Len(sorted) : Throws(sorted[i])
             THEN /\ pc' = "failed"
                  /\ UNCHANGED deduped
             ELSE /\ pc' = "deduped"
                  /\ deduped' = dedupe(sorted)
    /\ UNCHANGED <<dir, report, summary, unifyVars, fileVars, prjuryVars>>

\* The rest of main: sort (in place), slice, findDisagreements, toolCounts,
\* formatSummary, and the two files written.
WriteReport(maxComments) ==
    /\ pc = "deduped"
    /\ LET sorted == SortBySeverity(deduped)
       IN /\ deduped' = sorted
          /\ report' = ReportJson(sorted, maxComments)
          /\ summary' = formatSummary(sorted, findDisagreements(sorted),
                                      ToolCounts(sorted), maxComments)
    /\ pc' = "done"
    /\ UNCHANGED <<dir, items, unifyVars, fileVars, prjuryVars>>

AggIdle ==
    /\ dir = NoDir /\ pc = "idle" /\ items = <<>> /\ deduped = <<>>
    /\ report = NoReport /\ summary = NoSummary

---------------------------------------------------------------------------
(* scripts/unify-llm.mjs: the rewrite pass.  --fallback is report.md and --out
   is comment.md; a file is <<>> when absent and <<text>> when present. *)

\* fallbackCopy: the text of the --out file after it.
fallbackCopy(fallback, out) == IF fallback # <<>> THEN fallback ELSE out

\* What the chat completions call can come to: fetch rejects, a non-OK status,
\* a body with no (or only blank) content, or content.
Responses == {"networkError", "notOk", "empty", "content"}
LlmText == <<"rewritten by the model">>

\* if (!apiKey) { fallbackCopy(); return; }
CheckKey ==
    /\ upc = "start"
    /\ IF ~apiKey
       THEN /\ commentMd' = fallbackCopy(reportMd, commentMd)
            /\ upc' = "done"
            /\ uexit' = "ok"
       ELSE /\ upc' = "checkIssues"
            /\ UNCHANGED <<commentMd, uexit>>
    /\ UNCHANGED <<aggVars, apiKey, issuesFile, response, reportMd, prjuryVars>>

\* if (!fs.existsSync(options.issuesPath)) { fallbackCopy(); return; }
CheckIssues ==
    /\ upc = "checkIssues"
    /\ IF issuesFile = "missing"
       THEN /\ commentMd' = fallbackCopy(reportMd, commentMd)
            /\ upc' = "done"
            /\ uexit' = "ok"
       ELSE /\ upc' = "readReport"
            /\ UNCHANGED <<commentMd, uexit>>
    /\ UNCHANGED <<aggVars, apiKey, issuesFile, response, reportMd, prjuryVars>>

\* readJson and buildPrompt, before the try: JSON.parse throws on text that is
\* not JSON, and report.maxComments throws on the JSON value null.  main is
\* async and nothing handles its rejection.
ReadReport ==
    /\ upc = "readReport"
    /\ IF issuesFile \in {"invalid", "null"}
       THEN /\ upc' = "done"
            /\ uexit' = "uncaught"
       ELSE /\ upc' = "fetch"
            /\ UNCHANGED uexit
    /\ UNCHANGED <<aggVars, apiKey, issuesFile, response, fileVars, prjuryVars>>

\* The try block: the call, the checks on its answer, the write; and the catch.
Fetch(resp) ==
    /\ upc = "fetch"
    /\ response' = resp
    /\ commentMd' = IF resp = "content" THEN LlmText
                    ELSE fallbackCopy(reportMd, commentMd)
    /\ upc' = "done"
    /\ uexit' = "ok"
    /\ UNCHANGED <<aggVars, apiKey, issuesFile, reportMd, prjuryVars>>

UnifyNext ==
    \/ CheckKey
    \/ CheckIssues
    \/ ReadReport
    \/ \E resp \in Responses : Fetch(resp)

OldReport == <<"report of an earlier run">>
NewReport == <<"report of this run">>
OldComment == <<"comment of an earlier run">>

PrjuryIdle ==
    /\ ppc = "idle"
    /\ opts = [post |-> FALSE, repo |-> FALSE, pr |-> FALSE, githubToken |-> FALSE,
               openaiKey |-> FALSE]
    /\ aggStatus = 0
    /\ posted = <<>>

\* unify-llm run by hand: any key, issues file, fallback and earlier output.
UnifyInit ==
    /\ upc = "start"
    /\ apiKey \in BOOLEAN
    /\ issuesFile \in {"missing", "invalid", "null", "valid"}
    /\ response = "none"
    /\ uexit = "none"
    /\ reportMd \in {<<>>, OldReport, NewReport}
    /\ commentMd \in {<<>>, OldComment}
    /\ AggIdle
    /\ PrjuryIdle

---------------------------------------------------------------------------
(* scripts/prjury.mjs: the orchestrator.  Each option is TRUE when it is given
   (for repo, pr and githubToken: by a flag or by the environment). *)

\* Exit statuses the aggregate child can end with: 0, or 1 after an exception.
AggStatuses == {0, 1}
\* Exit statuses of gh api.
GhStatuses == {0, 1}

\* aggregate(): the child writes report.json and report.md and exits 0, or ends
\* in an exception before it writes; run throws on a status that is not 0.
Aggregate(status) ==
    /\ ppc = "start"
    /\ aggStatus' = status
    /\ IF status = 0
       THEN /\ reportMd' = NewReport
            /\ issuesFile' = "valid"
            /\ ppc' = "aggregated"
       ELSE /\ ppc' = "failed"
            /\ UNCHANGED <<reportMd, issuesFile>>
    /\ UNCHANGED <<aggVars, upc, apiKey, response, uexit, commentMd, opts, posted>>

\* unify(): nothing without a key; else spawnSync of unify-llm.mjs with the key.
Unify ==
    /\ ppc = "aggregated"
    /\ IF ~opts.openaiKey
       THEN /\ ppc' = "unified"
            /\ UNCHANGED <<upc, apiKey>>
       ELSE /\ ppc' = "unifying"
            /\ upc' = "start"
            /\ apiKey' = TRUE
    /\ UNCHANGED <<aggVars, issuesFile, response, uexit, fileVars, opts, aggStatus, posted>>

\* The child is ended from outside before it exits: spawnSync then returns a
\* status that is not 0 (null after a signal).
UnifyKilled ==
    /\ ppc = "unifying"
    /\ upc # "done"
    /\ upc' = "done"
    /\ uexit' = "killed"
    /\ UNCHANGED <<aggVars, apiKey, issuesFile, response, fileVars, prjuryVars>>

\* run without its check of the child's status.
UnifyReturnIgnoringStatus ==
    /\ ppc = "unifying"
    /\ upc = "done"
    /\ ppc' = "unified"
    /\ UNCHANGED <<aggVars, unifyVars, fileVars, opts, aggStatus, posted>>

\* run's check of the child's status: 0 after a normal end; an unhandled
\* rejection ends node with 1.
UnifyReturn ==
    /\ ppc = "unifying"
    /\ upc = "done"
    /\ ppc' = IF uexit = "ok" THEN "unified" ELSE "failed"
    /\ UNCHANGED <<aggVars, unifyVars, fileVars, opts, aggStatus, posted>>

\* The file postReview hands to gh: comment.md when it exists, else report.md.
CommentPath == IF commentMd # <<>> THEN commentMd ELSE reportMd

\* postReview without its check of options.post.
postReviewAlways(ghStatus) ==
    /\ ppc = "unified"
    /\ IF ~opts.repo \/ ~opts.pr
       THEN /\ ppc' = "failed"
            /\ UNCHANGED posted
       ELSE IF CommentPath = <<>>
       THEN /\ ppc' = "done"
            /\ UNCHANGED posted
       ELSE IF ~opts.githubToken
       THEN /\ ppc' = "failed"
            /\ UNCHANGED posted
       ELSE /\ posted' = Append(posted, CommentPath)
            /\ ppc' = IF ghStatus = 0 THEN "done" ELSE "failed"
    /\ UNCHANGED <<aggVars, unifyVars, fileVars, opts, aggStatus>>

postReview(ghStatus) ==
    /\ ppc = "unified"
    /\ IF ~opts.post
       THEN /\ ppc' = "done"
            /\ UNCHANGED posted
       ELSE IF ~opts.repo \/ ~opts.pr
       THEN /\ ppc' = "failed"
            /\ UNCHANGED posted
       ELSE IF CommentPath = <<>>
       THEN /\ ppc' = "done"
            /\ UNCHANGED posted
       ELSE IF ~opts.githubToken
       THEN /\ ppc' = "failed"
            /\ UNCHANGED posted
       ELSE /\ posted' = Append(posted, CommentPath)
            /\ ppc' = IF ghStatus = 0 THEN "done" ELSE "failed"
    /\ UNCHANGED <<aggVars, unifyVars, fileVars, opts, aggStatus>>

PrjuryNext ==
    \/ \E status \in AggStatuses : Aggregate(status)
    \/ Unify
    \/ UnifyKilled
    \/ UnifyReturn
    \/ \E ghStatus \in GhStatuses : postReview(ghStatus)
    \/ CheckKey
    \/ CheckIssues
    \/ ReadReport
    \/ \E resp \in Responses : Fetch(resp)

\* Before prjury's main: any options, and whatever earlier runs left in the
\* input directory.
PrjuryInit ==
    /\ ppc = "start"
    /\ opts \in [post : BOOLEAN, repo : BOOLEAN, pr : BOOLEAN, githubToken : BOOLEAN,
                 openaiKey : BOOLEAN]
    /\ aggStatus = 0
    /\ posted = <<>>
    /\ reportMd \in {<<>>, OldReport}
    /\ commentMd \in {<<>>, OldComment}
    /\ issuesFile \in {"missing", "valid"}
    /\ upc = "idle" /\ apiKey = FALSE /\ response = "none" /\ uexit = "none"
    /\ AggIdle

---------------------------------------------------------------------------
(* Specifications *)

\* scripts/aggregate.mjs
Init ==
    /\ AggInit
    /\ upc = "idle" /\ apiKey = FALSE /\ issuesFile = "missing" /\ response = "none"
    /\ uexit = "none" /\ reportMd = <<>> /\ commentMd = <<>>
    /\ PrjuryIdle

Next ==
    \/ LoadIssues
    \/ Dedupe
    \/ \E maxComments \in MaxCommentsValues : WriteReport(maxComments)

Spec == Init /\ [][Next]_vars

\* scripts/unify-llm.mjs
SpecUnify == UnifyInit /\ [][UnifyNext]_vars

\* scripts/prjury.mjs, with unify-llm.mjs as its child
SpecPrjury == PrjuryInit /\ [][PrjuryNext]_vars

\* scripts/aggregate.mjs on one finding of any severity
SeverityInit ==
    /\ \E severity \in RawSeverities :
         dir = Listing("array", <<Finding(severity, FileA, Num("7"), MsgX)>>, "array", <<>>)
    /\ pc = "start" /\ items = <<>> /\ deduped = <<>>
    /\ report = NoReport /\ summary = NoSummary
    /\ upc = "idle" /\ apiKey = FALSE /\ issuesFile = "missing" /\ response = "none"
    /\ uexit = "none" /\ reportMd = <<>> /\ commentMd = <<>>
    /\ PrjuryIdle

SpecSeverity == SeverityInit /\ [][Next]_vars

\* scripts/aggregate.mjs on one file of MaxFindings findings at two locations
DisagreementsInit ==
    /\ \E data \in SeqsOfLen(LocatedFindings, MaxFindings) :
         dir = Listing("array", data, "array", <<>>)
    /\ pc = "start" /\ items = <<>> /\ deduped = <<>>
    /\ report = NoReport /\ summary = NoSummary
    /\ upc = "idle" /\ apiKey = FALSE /\ issuesFile = "missing" /\ response = "none"
    /\ uexit = "none" /\ reportMd = <<>> /\ commentMd = <<>>
    /\ PrjuryIdle

SpecDisagreements == DisagreementsInit /\ [][Next]_vars

---------------------------------------------------------------------------
(* Properties *)

\* blocker > major > minor > nit, as a rank: 0 is the most severe.
Rank(severity) ==
    CASE severity = "blocker" -> 0
      [] severity = "major" -> 1
      [] severity = "minor" -> 2
      [] severity = "nit" -> 3

\* The merge key of an issue: file and line, each empty only when unknown
\* (null), and the first 160 characters of the message with whitespace runs
\* collapsed and the ends trimmed.
KeyOf(issue) ==
    <<IF issue.file = Null THEN <<>> ELSE issue.file.val,
      IF issue.line = Null THEN <<>> ELSE issue.line.val,
      Trim(CollapseSpaces(Slice(issue.message.val, KeyPrefix)))>>

\* The issues as loadIssues returned them, before main sorted them.
Loaded == loadIssues(dir)

\* dedupe has returned.
Merged == pc \in {"deduped", "done"}

\* C1: after the pre-sort and dedupe, the severity of each merged issue is the
\* most severe severity among the input issues that share its merge key: it is
\* the severity of one of them and no duplicate's severity is more severe,
\* whatever the order in which the duplicates were loaded.
C1_MergedSeverityIsMostSevere ==
    Merged =>
        \A k \in 1..Len(deduped) :
            LET dups == {i \in 1..Len(items) : KeyOf(items[i]) = KeyOf(deduped[k])}
            IN /\ \E i \in dups : items[i].severity = deduped[k].severity
               /\ \A i \in dups : Rank(deduped[k].severity) <= Rank(items[i].severity)

\* A less severe duplicate was loaded before a more severe one, and the report
\* is written.
C1_Witness ==
    /\ pc = "done"
    /\ \E a, b \in 1..Len(Loaded) :
        /\ a < b
        /\ KeyOf(Loaded[a]) = KeyOf(Loaded[b])
        /\ Rank(Loaded[a].severity) > Rank(Loaded[b].severity)

\* The tools an input issue contributes: its tool and the entries of its tools.
Contributed(issue) ==
    {issue.tool.val} \cup (IF issue.tools.ty = "array" THEN Range(issue.tools.elems) ELSE {})

\* C2: for every merge key, the tools of the merged issue are exactly the tools
\* contributed by the input issues of that key, each once.
C2_ToolsAreUnionPerKey ==
    Merged =>
        \A k \in 1..Len(deduped) :
            LET contributors == {i \in 1..Len(items) : KeyOf(items[i]) = KeyOf(deduped[k])}
                tools == deduped[k].tools.elems
            IN /\ Range(tools) = UNION {Contributed(items[i]) : i \in contributors}
               /\ Len(tools) = Cardinality(Range(tools))

\* The same with the key as dedupe derives it (which takes line 0 for no line).
ToolsAreUnionPerDedupeKey ==
    Merged =>
        \A k \in 1..Len(deduped) :
            LET contributors == {i \in 1..Len(items) : MergeKey(items[i]) = MergeKey(deduped[k])}
                tools == deduped[k].tools.elems
            IN /\ Range(tools) = UNION {Contributed(items[i]) : i \in contributors}
               /\ Len(tools) = Cardinality(Range(tools))

\* The location of an issue: file:line, with "unknown" and "?" only for an
\* unknown (null) file or line.
LocationOf(issue) ==
    (IF issue.file = Null THEN <<"unknown">> ELSE issue.file.val) \o <<":">>
        \o (IF issue.line = Null THEN <<"?">> ELSE issue.line.val)

\* The entries of the report's disagreements at a location.
EntriesAt(loc) ==
    {d \in 1..Len(report.disagreements) : report.disagreements[d].location = loc}

\* C3: two input records of different tools with one merge key and different
\* severities give one merged issue and exactly one disagreement entry at their
\* location, which lists both severities and both tools.
C3_SameKeyDisagreementReported ==
    pc = "done" =>
        \A a, b \in 1..Len(items) :
            (/\ KeyOf(items[a]) = KeyOf(items[b])
             /\ items[a].tool # items[b].tool
             /\ items[a].severity # items[b].severity)
            => /\ Cardinality({k \in 1..Len(deduped) : KeyOf(deduped[k]) = KeyOf(items[a])}) = 1
               /\ Cardinality(EntriesAt(LocationOf(items[a]))) = 1
               /\ \A d \in EntriesAt(LocationOf(items[a])) :
                    /\ {items[a].severity, items[b].severity}
                            \subseteq Range(report.disagreements[d].severities)
                    /\ {items[a].tool.val, items[b].tool.val}
                            \subseteq Range(report.disagreements[d].tools)

Min(a, b) == IF a < b THEN a ELSE b

\* A non-negative integer.
IsCount(number) == ~number.nan /\ ~number.half /\ number.int >= 0

\* C4: in the written report emitted = min(maxComments, total), issues has
\* emitted entries, and total is the number of merged issues whatever
\* maxComments is; with maxComments = 0 issues is empty.
C4_CapInvariant ==
    (pc = "done" /\ IsCount(report.maxComments)) =>
        /\ report.total = Len(deduped)
        /\ report.emitted = Min(report.maxComments.int, report.total)
        /\ Len(report.issues) = report.emitted
        /\ report.maxComments = Integer(0) => report.issues = <<>>

\* A report whose cap cut the list: two merged issues, one emitted.
C4_Witness ==
    pc = "done" /\ IsCount(report.maxComments) /\ report.total = 2 /\ report.emitted = 1

\* The position of a merged issue in a list of merged issues (one per key).
PositionIn(list, issue) == CHOOSE k \in 1..Len(list) : MergeKey(list[k]) = MergeKey(issue)

\* C5: the report's issues are in severity order, blocker first; they are the
\* first emitted entries of the sorted merged list, which holds the merger's
\* issues; and issues of one severity keep the order the merger produced.
C5_ReportOrderedBySeverity ==
    pc = "done" =>
        LET merger == dedupe(items)
        IN /\ \A i, j \in 1..Len(report.issues) :
                i < j => Rank(report.issues[i].severity) <= Rank(report.issues[j].severity)
           /\ report.issues = SubSeq(deduped, 1, report.emitted)
           /\ Len(deduped) = Len(merger) /\ Range(deduped) = Range(merger)
           /\ \A i, j \in 1..Len(deduped) :
                (i < j /\ deduped[i].severity = deduped[j].severity)
                => PositionIn(merger, deduped[i]) < PositionIn(merger, deduped[j])

\* Two emitted issues of one severity.
C5_Witness ==
    /\ pc = "done"
    /\ report.emitted = 2
    /\ report.issues[1].severity = report.issues[2].severity

\* C6: findDisagreements gives exactly one entry for each location at which the
\* merged issues carry two or more distinct severities and none for any other
\* location; the entry's severities are the distinct severities at the location
\* and its tools the union of the tools of the merged issues there.
C6_OneEntryPerDisagreeingLocation ==
    pc = "done" =>
        LET at(loc) == {k \in 1..Len(deduped) : LocationOf(deduped[k]) = loc}
            sevs(loc) == {deduped[k].severity : k \in at(loc)}
            tools(loc) == UNION {Range(deduped[k].tools.elems) : k \in at(loc)}
        IN /\ \A k \in 1..Len(deduped) :
                LET loc == LocationOf(deduped[k])
                IN /\ Cardinality(EntriesAt(loc)) = IF Cardinality(sevs(loc)) >= 2 THEN 1 ELSE 0
                   /\ \A d \in EntriesAt(loc) :
                        /\ Range(report.disagreements[d].severities) = sevs(loc)
                        /\ Range(report.disagreements[d].tools) = tools(loc)
           /\ \A d \in 1..Len(report.disagreements) :
                \E k \in 1..Len(deduped) : LocationOf(deduped[k]) = report.disagreements[d].location

\* The same with the location as findDisagreements derives it (which takes line
\* 0 for no line).
OneEntryPerDisagreeingCodeLocation ==
    pc = "done" =>
        LET at(loc) == {k \in 1..Len(deduped) : Location(deduped[k]) = loc}
            sevs(loc) == {deduped[k].severity : k \in at(loc)}
            tools(loc) == UNION {Range(deduped[k].tools.elems) : k \in at(loc)}
        IN /\ \A k \in 1..Len(deduped) :
                LET loc == Location(deduped[k])
                IN /\ Cardinality(EntriesAt(loc)) = IF Cardinality(sevs(loc)) >= 2 THEN 1 ELSE 0
                   /\ \A d \in EntriesAt(loc) :
                        /\ Range(report.disagreements[d].severities) = sevs(loc)
                        /\ Range(report.disagreements[d].tools) = tools(loc)
           /\ \A d \in 1..Len(report.disagreements) :
                \E k \in 1..Len(deduped) : Location(deduped[k]) = report.disagreements[d].location

\* The directory without the files that cannot be read, are not JSON or hold no
\* array.
ArrayFilesOnly(d) == [d EXCEPT !.files = SelectSeq(@, LAMBDA f : f.kind = "array")]

\* C7: a file that cannot be read, is not JSON or holds no array contributes no
\* issues and never aborts the run: the issues loaded are those of the other
\* files, the run fails only on an element of one of those, and the report
\* written is the report of those files alone.
C7_BadFilesAreSkipped ==
    LET expected == loadIssues(ArrayFilesOnly(dir))
    IN /\ pc = "loaded" => items = expected
       /\ pc = "failed" => \E i \in 1..Len(expected) : Throws(expected[i])
       /\ pc = "done" =>
            report = ReportJson(SortBySeverity(dedupe(SortBySeverity(expected))),
                                report.maxComments)

\* A report with an issue of one file, written beside a file that was skipped.
C7_Witness ==
    /\ pc = "done"
    /\ \E i \in 1..Len(dir.files) : dir.files[i].kind \in BadKinds
    /\ report.total >= 1

\* C8: whatever the elements of an array file are, the run never aborts and
\* every element with a field of an unexpected type is dropped, so that a
\* report is always written from the other elements.
C8_UntrustedElementsNeverAbort ==
    /\ pc # "failed"
    /\ pc \in {"loaded", "deduped", "done"} =>
        \A i \in 1..Len(items) :
            /\ items[i].message.ty = "string"
            /\ items[i].tools.ty \in {"null", "array"}

\* The rewrite pass failed: no key, no usable report file, or no content from
\* the model.
RewriteFailed ==
    \/ ~apiKey
    \/ issuesFile # "valid"
    \/ response \in {"networkError", "notOk", "empty"}

\* C9: after any failure of the rewrite pass the comment file holds the core's
\* text report, and the pass did not end in an uncaught error.
C9_FailureLeavesFallback ==
    (upc = "done" /\ RewriteFailed /\ reportMd # <<>>) =>
        /\ commentMd = reportMd
        /\ uexit = "ok"

\* C10: without an OpenAI key, what the orchestrator posts is the report.md the
\* aggregator wrote in this run.
C10_NoKeyPostsThisRunsReport ==
    (~opts.openaiKey /\ posted # <<>>) => posted[1] = NewReport

\* C11: a maxComments that is no non-negative integer (a negative number, a
\* fraction, not a number) makes the run fail: no report is written with it.
C11_InvalidMaxCommentsFails ==
    pc = "done" => IsCount(report.maxComments)

\* C12: toolCounts has one counter for each tool named by a merged issue, and
\* the counter of tool t is the number of merged issues, capped or not, whose
\* tools contain t; so the counts are the same for every maxComments.
C12_ToolCountsOverAllMerged ==
    pc = "done" =>
        LET named == UNION {Range(deduped[k].tools.elems) : k \in 1..Len(deduped)}
        IN /\ DOMAIN report.toolCounts = named
           /\ \A t \in named :
                report.toolCounts[t] =
                    Cardinality({k \in 1..Len(deduped) : t \in Range(deduped[k].tools.elems)})

\* Nothing is emitted of two merged issues, one of which names two tools.
C12_Witness ==
    /\ pc = "done"
    /\ report.maxComments = Integer(0)
    /\ report.total = 2
    /\ \E k \in 1..Len(deduped) : Len(deduped[k].tools.elems) = 2

\* A raw severity is the word w, ignoring case.
IsWord(value, w) ==
    /\ value.ty = "string"
    /\ Len(value.val) = Len(Chars(w))
    /\ \A i \in 1..Len(value.val) : value.val[i] \in {Chars(w)[i], UpperChar(Chars(w)[i])}

\* The level of a raw severity: the level it names; blocker for critical and
\* high, major for medium, minor for low; minor for anything else.
LevelOf(value) ==
    IF \E w \in Range(severityOrder) : IsWord(value, w)
    THEN CHOOSE w \in Range(severityOrder) : IsWord(value, w)
    ELSE IF IsWord(value, "critical") \/ IsWord(value, "high") THEN "blocker"
    ELSE IF IsWord(value, "medium") THEN "major"
    ELSE "minor"

\* C13: the severity of a loaded issue is the level of its raw severity, and so
\* one of blocker, major, minor and nit.
C13_SeverityIsNormalized ==
    /\ pc = "loaded" =>
        /\ Len(items) = Len(dir.files[1].data)
        /\ \A i \in 1..Len(items) : items[i].severity = LevelOf(dir.files[1].data[i].severity)
    /\ \A i \in 1..Len(items) : items[i].severity \in Range(severityOrder)

\* CRITICAL was loaded as blocker.
C13_Witness ==
    /\ pc = "loaded"
    /\ dir.files[1].data[1].severity = Str(UpperCase(Chars("critical")))
    /\ items[1].severity = "blocker"

\* A merged issue with a message and a tool.
HasMessageAndTools(issue) ==
    /\ issue.message.ty = "string" /\ issue.message.val # <<>>
    /\ issue.tools.ty = "array" /\ issue.tools.elems # <<>>

\* C14: every issue of the merged collection, and so every issue of the report,
\* has a non-empty message and a non-empty list of tools.
C14_MergedHaveMessageAndTools ==
    /\ Merged => \A k \in 1..Len(deduped) : HasMessageAndTools(deduped[k])
    /\ pc = "done" => \A k \in 1..Len(report.issues) : HasMessageAndTools(report.issues[k])

\* A report with an issue that came with an empty tools list, from a directory
\* that also held an object with neither message nor text.
C14_Witness ==
    /\ pc = "done"
    /\ report.emitted >= 1
    /\ \E i \in 1..Len(Loaded) : Loaded[i].tools = Arr(<<>>)
    /\ \E f \in 1..Len(dir.files) : \E e \in 1..Len(dir.files[f].data) :
        LET element == dir.files[f].data[e]
        IN element.isObject /\ ~Truthy(element.message) /\ ~Truthy(element.text)

\* The input directory holds no findings: it is missing, or each of its files
\* is skipped or holds only elements the loader drops.
NoFindings(d) ==
    \/ ~d.exists
    \/ \A f \in 1..Len(d.files) :
        \/ d.files[f].kind # "array"
        \/ \A e \in 1..Len(d.files[f].data) :
            LET element == d.files[f].data[e]
            IN ~element.isObject \/ (~Truthy(element.message) /\ ~Truthy(element.text))

\* C15: without findings the run does not fail, and the report it writes has
\* total 0, emitted 0, no issues and no disagreements.
C15_NoFindingsIsNoError ==
    NoFindings(dir) =>
        /\ pc # "failed"
        /\ pc = "done" =>
            /\ report.total = 0 /\ report.emitted = 0
            /\ report.issues = <<>> /\ report.disagreements = <<>>

\* A report written from a directory whose files hold elements, none a finding.
C15_Witness ==
    /\ pc = "done"
    /\ NoFindings(dir)
    /\ \E f \in 1..Len(dir.files) : dir.files[f].kind # "array"
    /\ \E f \in 1..Len(dir.files) : dir.files[f].data # <<>>

\* C16: with posting disabled nothing is ever sent to the review API, whatever
\* repo, PR number, token and files are there; and once the aggregate stage has
\* ended with status 0 the report of this run is in the input directory.
C16_NoPostWhenDisabled ==
    ~opts.post =>
        /\ posted = <<>>
        /\ ppc \in {"aggregated", "unifying", "unified", "done"} => reportMd = NewReport

\* A run with posting disabled ended, with repo, PR number, token and a comment
\* file all there.
C16_Witness ==
    /\ ppc = "done"
    /\ ~opts.post /\ opts.repo /\ opts.pr /\ opts.githubToken
    /\ commentMd # <<>> /\ reportMd = NewReport

\* C17: merging the merged output again, alone or concatenated with itself,
\* gives the merged output: the same records, with the same keys, severities,
\* tools and suggestions.
C17_MergeIsIdempotent ==
    Merged =>
        /\ dedupe(deduped) = deduped
        /\ dedupe(deduped \o deduped) = deduped

\* A merged record with two tools and a suggestion.
C17_Witness ==
    /\ Merged
    /\ \E k \in 1..Len(deduped) :
        Len(deduped[k].tools.elems) >= 2 /\ Truthy(deduped[k].suggestion)

\* C18: dedupe returns one record for each distinct merge key of its input,
\* where file and line are empty in the key only when unknown: two issues end in
\* one record exactly when file, line (0 included) and normalized message
\* prefix are the same.
C18_OneRecordPerMergeKey ==
    Merged =>
        /\ Len(deduped) = Cardinality({KeyOf(items[i]) : i \in 1..Len(items)})
        /\ \A i \in 1..Len(items) :
            Cardinality({k \in 1..Len(deduped) : KeyOf(deduped[k]) = KeyOf(items[i])}) = 1

\* An object record has a message: its message field, else its text field.
HasMessage(element) == Truthy(element.message) \/ Truthy(element.text)

\* An object record with each missing field at its default: the tool is the
\* file's base name, the severity minor, file, line and suggestion unknown.
Defaulted(element, name) ==
    [tool |-> IF Truthy(element.tool) THEN element.tool ELSE Str(name),
     severity |-> LevelOf(element.severity),
     file |-> IF Truthy(element.file) THEN element.file ELSE Null,
     line |-> IF element.line.ty = "number" THEN element.line ELSE Null,
     message |-> IF Truthy(element.message) THEN element.message ELSE element.text,
     suggestion |-> IF Truthy(element.suggestion) THEN element.suggestion
                    ELSE IF Truthy(element.fix) THEN element.fix ELSE Null,
     tools |-> IF Truthy(element.tools) THEN element.tools ELSE Null]

\* The object records of a file that have a message, defaulted, in order.
KeptOf(file) ==
    LET kept == SelectSeq(file.data, LAMBDA e : e.isObject /\ HasMessage(e))
    IN [i \in 1..Len(kept) |-> Defaulted(kept[i], file.name)]

\* C19: the normalizer drops an object record exactly when it has no message
\* (message field, else text field); every other record is kept, whatever its
\* other fields are, with the default in each field that is missing or unusable.
C19_DroppedOnlyWithoutMessage ==
    pc = "loaded" =>
        items = Flatten([f \in 1..Len(dir.files) |->
                            IF dir.files[f].kind = "array" THEN KeptOf(dir.files[f])
                            ELSE <<>>])

\* A record without tool, file, suggestion, with a severity and a line that are
\* unusable, was kept; a record without message was dropped.
C19_Witness ==
    /\ pc = "loaded"
    /\ \E i \in 1..Len(items) :
        /\ items[i].file = Null /\ items[i].line = Null /\ items[i].suggestion = Null
        /\ items[i].severity = "minor" /\ items[i].tool = Str(<<"codex">>)
    /\ \E f \in 1..Len(dir.files) : \E e \in 1..Len(dir.files[f].data) :
        dir.files[f].data[e].isObject /\ ~HasMessage(dir.files[f].data[e])

\* The locations of the merged issues, each once, in the order first seen.
LocationsSeen == Uniq([k \in 1..Len(deduped) |-> LocationOf(deduped[k])])

\* The merged issues at a location carry more than one severity.
Disagreeing(loc) ==
    Cardinality({deduped[k].severity : k \in {j \in 1..Len(deduped) : LocationOf(deduped[j]) = loc}}) >= 2

\* C20: the report's disagreements are those of all merged issues, capped or
\* not: one entry for each location that disagrees, in the order in which the
\* locations are first seen among the merged issues, the same for every
\* maxComments.
C20_DisagreementsIgnoreTheCap ==
    pc = "done" =>
        /\ [d \in 1..Len(report.disagreements) |-> report.disagreements[d].location]
                = SelectSeq(LocationsSeen, Disagreeing)
        /\ \A maxComments \in MaxCommentsValues :
                ReportJson(deduped, maxComments).disagreements = report.disagreements

\* The same disagreements are written for every maxComments (also for findings
\* at line 0).
DisagreementsSameForEveryCap ==
    pc = "done" =>
        \A maxComments \in MaxCommentsValues :
            ReportJson(deduped, maxComments).disagreements = report.disagreements

\* Nothing is emitted and both locations are reported, the one seen first
\* being the one without a line.
C20_Witness ==
    /\ pc = "done"
    /\ report.maxComments = Integer(0)
    /\ Len(report.disagreements) = 2
    /\ report.disagreements[1].location = <<"src/a.ts", ":", "?">>

\* The issues of a merged issue's key, in the order dedupe processed them (the
\* order of the pre-sorted items).
DuplicatesOf(issue) == SelectSeq(items, LAMBDA x : KeyOf(x) = KeyOf(issue))

\* The duplicates that carry a suggestion.
Suggesting(issue) == SelectSeq(DuplicatesOf(issue), LAMBDA x : Truthy(x.suggestion))

\* C21: the suggestion of a merged issue is the first non-empty suggestion among
\* the duplicates of its key in processing order, and none when no duplicate
\* has one: a suggestion once set is not changed by a later duplicate.
C21_FirstSuggestionIsKept ==
    Merged =>
        \A k \in 1..Len(deduped) :
            deduped[k].suggestion =
                IF Suggesting(deduped[k]) = <<>> THEN Null
                ELSE Suggesting(deduped[k])[1].suggestion

\* Two duplicates with different suggestions were merged; the one processed
\* first was loaded last.
C21_Witness ==
    /\ Merged
    /\ Len(Loaded) = 2 /\ Len(deduped) = 1
    /\ Truthy(Loaded[1].suggestion) /\ Truthy(Loaded[2].suggestion)
    /\ Loaded[1].suggestion # Loaded[2].suggestion
    /\ deduped[1].suggestion = Loaded[2].suggestion

\* The number of lines of a kind in the text report.
LinesOf(kind) == Cardinality({i \in 1..Len(summary.lines) : summary.lines[i] = kind})

\* C22: in the text report the header's total and counts per severity are those
\* of all merged issues, so the four counts add up to the total; there is one
\* bullet for each issue of the capped list; the note on trimming is there
\* exactly when the total exceeds the number of bullets; and the Disagreements
\* section is there exactly when the report has disagreements.
C22_TextReportLayout ==
    pc = "done" =>
        /\ summary.total = Len(deduped)
        /\ \A sev \in Range(severityOrder) :
            summary.counts[sev] =
                Cardinality({k \in 1..Len(deduped) : deduped[k].severity = sev})
        /\ summary.counts["blocker"] + summary.counts["major"] + summary.counts["minor"]
                + summary.counts["nit"] = summary.total
        /\ summary.bullets = report.issues
        /\ LinesOf("bullet") = Len(report.issues)
        /\ LinesOf("trimmed") = IF summary.total > LinesOf("bullet") THEN 1 ELSE 0
        /\ summary.trimmed # <<>> <=> summary.total > LinesOf("bullet")
        /\ LinesOf("Disagreements:") = IF report.disagreements # <<>> THEN 1 ELSE 0
        /\ LinesOf("disagreement") = Len(report.disagreements)

\* A text report of two issues with one bullet, the note on trimming and a
\* Disagreements section.
C22_Witness ==
    /\ pc = "done"
    /\ summary.total = 2
    /\ LinesOf("bullet") = 1
    /\ LinesOf("trimmed") = 1
    /\ LinesOf("Disagreements:") = 1

\* C23: the stages run in the order aggregate, rewrite, post.  The review API
\* is called at most once, and only with posting enabled, with repo, PR number
\* and token, after the aggregate stage ended with status 0 and, when a key is
\* given, after the rewrite stage ended with status 0.  The rewrite stage runs
\* only with a key and only after the aggregate stage ended with status 0.  A
\* stage that ends with another status stops the run with nothing posted.
C23_StagesInOrder ==
    /\ Len(posted) <= 1
    /\ posted # <<>> =>
        /\ opts.post /\ opts.repo /\ opts.pr /\ opts.githubToken
        /\ aggStatus = 0 /\ reportMd = NewReport
        /\ opts.openaiKey => (upc = "done" /\ uexit = "ok")
    /\ upc # "idle" => (opts.openaiKey /\ aggStatus = 0 /\ reportMd = NewReport)
    /\ aggStatus # 0 => (ppc = "failed" /\ upc = "idle" /\ posted = <<>>)
    /\ uexit \in {"uncaught", "killed"} => (ppc \in {"unifying", "failed"} /\ posted = <<>>)

\* A review was posted after both the aggregate and the rewrite stage.
C23_Witness ==
    /\ ppc = "done"
    /\ opts.openaiKey
    /\ posted # <<>>
    /\ upc = "done" /\ uexit = "ok"

=============================================================================
